---- MODULE Spec2Model ----
(***************************************************************************)
(* A model of the Hugo Preview extension (src/src/extension.ts).           *)
(*                                                                         *)
(* The extension has four loosely coupled parts, each with its own state   *)
(* and its own specification:                                              *)
(*   Spec         the supervision of the "hugo server" child process       *)
(*                (startHugoServer, stopHugoServer, restartHugoServer)     *)
(*   PreviewSpec  the preview panel (openPreview and its save listeners)   *)
(*   HugoSpec     locating / installing the hugo binary (ensureHugo,       *)
(*                ensurePinnedHugoOnStartup, installHugoInternal)          *)
(*   ListSpec     resolveHtmlPathByHugoList, a pure function of the        *)
(*                "hugo list all" output                                   *)
(* JavaScript runs handlers to completion: an action is one synchronous    *)
(* segment of a handler, from its start or an await to the next await.     *)
(***************************************************************************)
EXTENDS Integers, Sequences, FiniteSets, TLC

VARIABLES
    \* ---- server supervision -------------------------------------------
    hugoServerProcess,    \* 0 for null, else the id of a spawned child
    isHugoServerRunning,  \* the status-bar flag
    child,                \* per spawned child: the OS process and the closure of startHugoServer
    nextPid,              \* the id the next spawn gets
    task,                 \* the command invocations in flight
    hasWorkspace,         \* vscode.workspace.workspaceFolders?.[0] is defined
    shown,                \* the notifications shown by the last handler that ran
    \* ---- preview panel ------------------------------------------------
    previewPanel,         \* 0 for undefined, 1 for an open webview panel
    webviewHtml,          \* what previewPanel.webview.html was built from
    listeners,            \* per document: the registered onDidSaveTextDocument listeners
    activeDoc,            \* the document of vscode.window.activeTextEditor
    text,                 \* per document: the version of its (saved) text
    contentFiles,         \* <globalStorage>/run/content: per document the version copied, -1 absent
    outHtml,              \* <globalStorage>/run/public: per document the version rendered, -1 absent
    call,                 \* the openPreview invocations in flight
    opens,                \* how often hugoPreview.open was invoked
    completed,            \* per document: the newest version a finished openPreview copied
    \* ---- the hugo binary ----------------------------------------------
    cfg,                  \* the hugoPreview settings: hugoPath, autoDownload, hugoVersion
    bins,                 \* the hugo binaries: at hugoPath, on PATH, in <globalStorage>/bin
    latest,               \* the version of the latest Hugo release
    pcStartup,            \* where the startup chain of activate() stands
    lastEnsure,           \* the last call of ensureHugo: its argument and what it did
    updateLog,            \* what checkHugoUpdateOnStartup did
    \* ---- resolveHtmlPathByHugoList ------------------------------------
    listRecords,          \* the records `hugo list all` writes as CSV, the header first
    contentRelPath,       \* opts.contentRelPath
    listResult            \* Pending, or what resolveHtmlPathByHugoList returned or threw

serverVars == <<hugoServerProcess, isHugoServerRunning, child, nextPid, task,
                hasWorkspace, shown>>

previewVars == <<previewPanel, webviewHtml, listeners, activeDoc, text,
                 contentFiles, outHtml, call, opens, completed>>

hugoVars == <<cfg, bins, latest, pcStartup, lastEnsure, updateLog>>

listVars == <<listRecords, contentRelPath, listResult>>

vars == <<serverVars, previewVars, hugoVars, listVars>>

(***************************************************************************)
(* Bounds                                                                  *)
(***************************************************************************)
MaxProcs == 2
MaxTasks == 2
MaxCalls == 2
MaxSaves == 2
MaxOpens == 2
MaxVersion == 2
MaxRows == 2

Pids  == 1..MaxProcs
Tasks == 1..MaxTasks

(***************************************************************************)
(* Server supervision                                                      *)
(***************************************************************************)
\* A child that was never spawned.  state: "none", "alive" (the OS process runs),
\* "failed" (spawn failed, the 'error' event is pending), "errored" ('error'
\* was delivered), "exited" ('exit' was delivered).
\* started / hasErrorLine are the closure variables of startHugoServer;
\* killed says that stopHugoServer took this child and called proc.kill();
\* code is the exit code the 'exit' event carried, -1 before it.
NoChild == [state |-> "none", started |-> FALSE, hasErrorLine |-> FALSE,
            killed |-> FALSE, code |-> -1]

\* proc is the child stopHugoServer waits for; old (restart only) are the
\* children that were alive when the restart command was given.
IdleTask == [pc |-> "idle", kind |-> "none", proc |-> 0, old |-> {}]

Alive(p) == child[p].state = "alive"

ServerInit ==
    /\ hugoServerProcess = 0
    /\ isHugoServerRunning = FALSE
    /\ child = [p \in Pids |-> NoChild]
    /\ nextPid = 1
    /\ task = [t \in Tasks |-> IdleTask]
    /\ hasWorkspace \in BOOLEAN
    /\ shown = {}

\* The first synchronous segment of startHugoServer, up to `await ensureHugo`,
\* run by invocation t of kind k with hugoServerProcess = hsp.  The result is
\* the task record and the notifications.
StartSegment(k, hsp) ==
    IF hsp # 0
    THEN [task |-> IdleTask, shown |-> {"error.hugoStartServer"}]
    ELSE IF ~hasWorkspace
    THEN [task |-> IdleTask, shown |-> {"error.noWorkspace"}]
    ELSE [task |-> [pc |-> "ensureHugo", kind |-> k, proc |-> 0, old |-> {}],
          shown |-> {}]

\* A task record of restartHugoServer, with the children it found alive.
WithOld(rec, old) == IF rec.pc = "idle" THEN rec ELSE [rec EXCEPT !.old = old]

\* The "start" command of the quick pick.
StartCommand(t) ==
    /\ task[t].pc = "idle"
    /\ LET r == StartSegment("start", hugoServerProcess) IN
        /\ task' = [task EXCEPT ![t] = r.task]
        /\ shown' = r.shown
    /\ UNCHANGED <<hugoServerProcess, isHugoServerRunning, child, nextPid, hasWorkspace>>

\* startHugoServer after `await ensureHugo`: clean public/, then spawn.
StartResume(t, outcome) ==
    /\ task[t].pc = "ensureHugo"
    /\ task' = [task EXCEPT ![t] = IdleTask]
    /\ \/ /\ outcome = "ensureThrows"      \* ensureHugo rejects: so does startHugoServer
          /\ shown' = {}
          /\ UNCHANGED <<hugoServerProcess, child, nextPid>>
       \/ /\ outcome = "cleanFails"        \* cleanPublicDir throws
          /\ shown' = {"error.cleanPublicFailed"}
          /\ UNCHANGED <<hugoServerProcess, child, nextPid>>
       \/ /\ outcome = "spawnThrows"       \* spawn throws synchronously
          /\ shown' = {"error.hugoStartServerFailed"}
          /\ hugoServerProcess' = 0
          /\ UNCHANGED <<child, nextPid>>
       \/ /\ outcome \in {"spawned", "spawnFails"}
          /\ nextPid <= MaxProcs
          /\ child' = [child EXCEPT ![nextPid] =
                [NoChild EXCEPT !.state = IF outcome = "spawned" THEN "alive" ELSE "failed"]]
          /\ hugoServerProcess' = nextPid
          /\ nextPid' = nextPid + 1
          /\ shown' = {}
    /\ UNCHANGED <<isHugoServerRunning, hasWorkspace>>

\* onLog: a chunk of the child's output that holds "Web Server is available".
ChildLogAvailable(p) ==
    /\ Alive(p)
    /\ IF ~child[p].started
       THEN /\ child' = [child EXCEPT ![p].started = TRUE]
            /\ isHugoServerRunning' = TRUE
            /\ shown' = {"info.hugoStartServer"}
       ELSE /\ shown' = {}
            /\ UNCHANGED <<child, isHugoServerRunning>>
    /\ UNCHANGED <<hugoServerProcess, nextPid, task, hasWorkspace>>

\* onLog: a chunk that holds an error line.
ChildLogError(p) ==
    /\ Alive(p)
    /\ ~child[p].hasErrorLine
    /\ child' = [child EXCEPT ![p].hasErrorLine = TRUE]
    /\ shown' = {}
    /\ UNCHANGED <<hugoServerProcess, isHugoServerRunning, nextPid, task, hasWorkspace>>

\* The 'error' handler of startHugoServer (the spawn failed).
ChildError(p) ==
    /\ child[p].state = "failed"
    /\ child' = [child EXCEPT ![p].state = "errored"]
    /\ hugoServerProcess' = 0
    /\ shown' = {"error.hugoServerLaunchFailed"}
    /\ UNCHANGED <<isHugoServerRunning, nextPid, task, hasWorkspace>>

\* The notifications of the 'exit' handler of startHugoServer.
ExitNotes(c, code) ==
    IF code # 0 \/ c.hasErrorLine THEN {"error.hugoServerFailed"}
    ELSE IF ~c.started THEN {"error.hugoServerExitedUnexpectedly"}
    ELSE {}

\* The 'exit' event of child p with exit code `code` (0 also stands for a null
\* code, the child ended by a signal).  The handler registered by
\* startHugoServer runs first, then the once-listener of stopHugoServer, which
\* resolves the promise; the continuation of an awaiting restartHugoServer
\* runs in the same turn (a microtask), so it is part of this action.
ChildExit(p, code) ==
    /\ \/ Alive(p)
       \/ child[p].state = "errored" /\ code # 0   \* 'exit' may follow 'error'
    /\ child' = [child EXCEPT ![p].state = "exited", ![p].code = code]
    /\ hugoServerProcess' = 0
    /\ isHugoServerRunning' = FALSE
    /\ LET waiters == {t \in Tasks : task[t].pc = "waitExit" /\ task[t].proc = p}
           stopNote == IF child[p].killed THEN {"info.hugoStopServer"} ELSE {}
           r == StartSegment("restart", hugoServerProcess')
           restarts == {t \in waiters : task[t].kind = "restart"}
       IN /\ task' = [t \in Tasks |->
                        IF t \in restarts THEN WithOld(r.task, task[t].old)
                        ELSE IF t \in waiters THEN IdleTask
                        ELSE task[t]]
          /\ shown' = ExitNotes(child[p], code) \cup stopNote
                        \cup (IF restarts # {} THEN r.shown ELSE {})
    /\ UNCHANGED <<nextPid, hasWorkspace>>

\* stopHugoServer, run by invocation t of kind k ("stop" or "restart").
StopSegment(t, k) ==
    IF hugoServerProcess = 0
    THEN \* nothing to stop: the promise resolves at once
         LET r == IF k = "restart" THEN StartSegment("restart", 0)
                  ELSE [task |-> IdleTask, shown |-> {}]
         IN /\ task' = [task EXCEPT ![t] = WithOld(r.task, {p \in Pids : Alive(p)})]
            /\ shown' = {"error.hugoStopServer"} \cup r.shown
            /\ UNCHANGED <<hugoServerProcess, child>>
    ELSE /\ task' = [task EXCEPT ![t] =
                        [pc |-> "waitExit", kind |-> k, proc |-> hugoServerProcess,
                         old |-> IF k = "restart" THEN {p \in Pids : Alive(p)} ELSE {}]]
         /\ child' = [child EXCEPT ![hugoServerProcess].killed = TRUE]
         /\ hugoServerProcess' = 0
         /\ shown' = {}

\* The "stop" command of the quick pick.
StopCommand(t) ==
    /\ task[t].pc = "idle"
    /\ StopSegment(t, "stop")
    /\ UNCHANGED <<isHugoServerRunning, nextPid, hasWorkspace>>

\* The "restart" command: restartHugoServer up to its first real await.
RestartCommand(t) ==
    /\ task[t].pc = "idle"
    /\ StopSegment(t, "restart")
    /\ UNCHANGED <<isHugoServerRunning, nextPid, hasWorkspace>>

StartOutcomes == {"ensureThrows", "cleanFails", "spawnThrows", "spawned", "spawnFails"}

(***************************************************************************)
(* Preview panel                                                           *)
(***************************************************************************)
\* The markdown documents under <workspace>/content.  activeDoc = "none"
\* stands for every editor state in which openPreview throws before its first
\* await: no active editor (also while the webview has the focus), a document
\* that is not markdown, or one outside content/.
Docs  == {"A", "B"}
Calls == 1..MaxCalls

\* pc: "idle"; "ensureHugo" (awaiting ensureHugo); "build" (the hugo build
\* runs and has not read the content directory yet); "render" (the build read
\* the content directory into snap and has not written public/ yet); "list"
\* (the build ended, `hugo list all` runs).
\* doc is the document captured by `const doc = editor.document`, origin says
\* who called openPreview, ver is the version of the text this call copied.
IdleCall == [pc |-> "idle", doc |-> "none", origin |-> "none", ver |-> -1,
             snap |-> [d \in Docs |-> -1]]

NoHtml == [doc |-> "none", ver |-> -1]

PreviewIdle ==
    /\ previewPanel = 0
    /\ webviewHtml = NoHtml
    /\ listeners = [d \in Docs |-> 0]
    /\ activeDoc = "none"
    /\ text = [d \in Docs |-> 0]
    /\ contentFiles = [d \in Docs |-> -1]
    /\ outHtml = [d \in Docs |-> -1]
    /\ call = [c \in Calls |-> IdleCall]
    /\ opens = 0
    /\ completed = [d \in Docs |-> -1]

PreviewInit ==
    /\ previewPanel = 0
    /\ webviewHtml = NoHtml
    /\ listeners = [d \in Docs |-> 0]
    /\ activeDoc \in Docs \cup {"none"}
    /\ text = [d \in Docs |-> 0]
    /\ contentFiles = [d \in Docs |-> -1]
    /\ outHtml = [d \in Docs |-> -1]
    /\ call = [c \in Calls |-> IdleCall]
    /\ opens = 0
    /\ completed = [d \in Docs |-> -1]

IdleCalls == {c \in Calls : call[c].pc = "idle"}

\* The first synchronous segment of openPreview, up to `await ensureHugo`:
\* the call record it leaves (IdleCall when it throws).
OpenSegment(origin) ==
    IF activeDoc = "none" \/ ~hasWorkspace
    THEN IdleCall
    ELSE [IdleCall EXCEPT !.pc = "ensureHugo", !.doc = activeDoc, !.origin = origin]

\* The hugoPreview.open command.
OpenCommand(c) ==
    /\ c \in IdleCalls
    /\ opens < MaxOpens
    /\ opens' = opens + 1
    /\ call' = [call EXCEPT ![c] = OpenSegment("command")]
    /\ UNCHANGED <<previewPanel, webviewHtml, listeners, activeDoc, text,
                   contentFiles, outHtml, completed>>

\* The user activates another editor (or none).
SwitchEditor(d) ==
    /\ d # activeDoc
    /\ activeDoc' = d
    /\ UNCHANGED <<previewPanel, webviewHtml, listeners, text, contentFiles,
                   outHtml, call, opens, completed>>

\* The files openPreview leaves in the temporary content directory when it
\* copies version v of document d into the directory holding `files`.
CopyIntoContent(files, d, v) == [files EXCEPT ![d] = v]

\* openPreview after `await ensureHugo`: copy the document's text into the
\* temporary content directory and start the build.
PrepareBuild(c) ==
    /\ call[c].pc = "ensureHugo"
    /\ contentFiles' = CopyIntoContent(contentFiles, call[c].doc, text[call[c].doc])
    /\ call' = [call EXCEPT ![c].pc = "build", ![c].ver = text[call[c].doc]]
    /\ UNCHANGED <<previewPanel, webviewHtml, listeners, activeDoc, text,
                   outHtml, opens, completed>>

\* The build process reads the content directory.
BuildRead(c) ==
    /\ call[c].pc = "build"
    /\ call' = [call EXCEPT ![c].pc = "render", ![c].snap = contentFiles]
    /\ UNCHANGED <<previewPanel, webviewHtml, listeners, activeDoc, text,
                   contentFiles, outHtml, opens, completed>>

\* The build process writes one page per content file it read into public/
\* and exits; openPreview goes on to `hugo list all`.
BuildWrite(c) ==
    /\ call[c].pc = "render"
    /\ outHtml' = [d \in Docs |->
                     IF call[c].snap[d] # -1 THEN call[c].snap[d] ELSE outHtml[d]]
    /\ call' = [call EXCEPT ![c].pc = "list", ![c].snap = IdleCall.snap]
    /\ UNCHANGED <<previewPanel, webviewHtml, listeners, activeDoc, text,
                   contentFiles, opens, completed>>

\* An awaited step rejects (ensureHugo, the build, hugo list) or the HTML is
\* missing: openPreview throws.  The command shows the error, the save
\* listener swallows it.
CallFails(c) ==
    /\ call[c].pc \in {"ensureHugo", "build", "render", "list"}
    /\ call' = [call EXCEPT ![c] = IdleCall]
    /\ UNCHANGED <<previewPanel, webviewHtml, listeners, activeDoc, text,
                   contentFiles, outHtml, opens, completed>>

\* The last segment of openPreview: read the HTML, create or reveal the
\* panel, set its HTML and register a save listener for the document.
Finish(c) ==
    /\ call[c].pc = "list"
    /\ outHtml[call[c].doc] # -1
    /\ previewPanel' = 1
    /\ webviewHtml' = [doc |-> call[c].doc, ver |-> outHtml[call[c].doc]]
    /\ listeners' = [listeners EXCEPT ![call[c].doc] = @ + 1]
    /\ completed' = [completed EXCEPT ![call[c].doc] =
                        IF call[c].ver > @ THEN call[c].ver ELSE @]
    /\ call' = [call EXCEPT ![c] = IdleCall]
    /\ UNCHANGED <<activeDoc, text, contentFiles, outHtml, opens>>

\* The user closes the panel: both onDidDispose handlers run.
ClosePanel ==
    /\ previewPanel # 0
    /\ previewPanel' = 0
    /\ webviewHtml' = NoHtml
    /\ listeners' = [d \in Docs |-> 0]
    /\ UNCHANGED <<activeDoc, text, contentFiles, outHtml, call, opens, completed>>

\* The listeners that call openPreview when document d is saved.
Triggered(d) == IF previewPanel = 0 THEN 0 ELSE listeners[d]

\* The n lowest idle call slots.
RECURSIVE Lowest(_, _)
Lowest(S, n) ==
    IF n = 0 \/ S = {} THEN {}
    ELSE LET m == CHOOSE x \in S : \A y \in S : x <= y
         IN {m} \cup Lowest(S \ {m}, n - 1)

\* Document d is saved with new text: every listener registered for d runs
\* the first segment of openPreview.
Save(d) ==
    /\ text["A"] + text["B"] < MaxSaves
    /\ Triggered(d) <= Cardinality(IdleCalls)
    /\ text' = [text EXCEPT ![d] = @ + 1]
    /\ LET started == Lowest(IdleCalls, Triggered(d))
       IN call' = [c \in Calls |-> IF c \in started THEN OpenSegment("save") ELSE call[c]]
    /\ UNCHANGED <<previewPanel, webviewHtml, listeners, activeDoc, contentFiles,
                   outHtml, opens, completed>>

(***************************************************************************)
(* The hugo binary: ensureHugo, the startup chain, installation            *)
(***************************************************************************)
\* Hugo versions are 1..MaxVersion, ordered as isNewer orders them; 0 stands
\* for the empty hugoVersion setting.  A binary is 0 when it is absent or
\* `hugo version` fails, -1 (the managed one only) when the file exists and
\* does not run, and else the version it reports.
Versions == 1..MaxVersion

\* The version installHugo falls back to when the latest release cannot be
\* fetched ("0.152.2").
FallbackVersion == 1

InstallOutcomes == {"ok", "downloadFails", "extractFails", "binaryNotFound",
                    "notExecutable"}

\* checkHugo(cmd) for a binary b: `hugo version` runs.
checkHugo(b) == b > 0

NoEnsure == [called |-> FALSE, force |-> FALSE, result |-> "none",
             prompted |-> FALSE, installed |-> FALSE, version |-> 0,
             afterPin |-> FALSE, pathRan |-> FALSE, managedRan |-> FALSE]

NoUpdate == [queried |-> FALSE, prompted |-> FALSE, installed |-> FALSE]

HugoIdle ==
    /\ cfg = [hugoPath |-> FALSE, autoDownload |-> TRUE, hugoVersion |-> 0]
    /\ bins = [user |-> 0, path |-> 0, managed |-> 0]
    /\ latest = 1
    /\ pcStartup = "pin"
    /\ lastEnsure = NoEnsure
    /\ updateLog = NoUpdate

HugoInit ==
    /\ cfg \in [hugoPath : BOOLEAN, autoDownload : BOOLEAN, hugoVersion : 0..MaxVersion]
    /\ bins \in [user : 0..MaxVersion, path : 0..MaxVersion, managed : -1..MaxVersion]
    /\ (~cfg.hugoPath => bins.user = 0)
    /\ latest \in Versions
    /\ pcStartup = "pin"
    /\ lastEnsure = NoEnsure
    /\ updateLog = NoUpdate

\* installHugoInternal(context, version, useExtended) on the managed binary
\* `managed`: the error thrown ("none" when it returns) and the managed binary
\* it leaves.  The binary is copied over the old one before the final check.
installHugoInternal(managed, version, outcome) ==
    CASE outcome = "ok" -> [error |-> "none", managed |-> version]
      [] outcome = "notExecutable" ->
            [error |-> "error.hugoNotExecutable", managed |-> -1]
      [] outcome = "binaryNotFound" ->
            [error |-> "error.hugoBinaryNotFound", managed |-> managed]
      [] OTHER -> [error |-> outcome, managed |-> managed]

\* installHugo: the pinned version, else the latest release, else the fallback.
installHugo(managed, netOk, outcome) ==
    LET version == IF cfg.hugoVersion # 0 THEN cfg.hugoVersion
                   ELSE IF netOk THEN latest ELSE FallbackVersion
    IN installHugoInternal(managed, version, outcome)

\* resolveInstalledHugo: "user", "hugo", "managed" or "null".
resolveInstalledHugo ==
    IF cfg.hugoPath /\ checkHugo(bins.user) THEN "user"
    ELSE IF checkHugo(bins.path) THEN "hugo"
    ELSE IF checkHugo(bins.managed) THEN "managed"
    ELSE "null"

\* The binary a resolved path names.
BinaryAt(b, where) ==
    CASE where = "user" -> b.user
      [] where = "hugo" -> b.path
      [] where = "managed" -> b.managed
      [] OTHER -> 0

HugoPaths == {"user", "hugo", "managed"}

\* RefusesInstall with the test of forceInstall inverted.
RefusesInstallInverted(autoDownload, forceInstall) == ~autoDownload /\ forceInstall

\* Step 4 of ensureHugo: without autoDownload and without forceInstall it
\* gives up before the prompt.
RefusesInstall(autoDownload, forceInstall) == ~autoDownload /\ ~forceInstall

\* ensureHugo(context, forceInstall) with the user's answer to the prompt, the
\* reachability of the release API and the outcome of the installation:
\* what it returns or throws (result), whether it prompted, whether it called
\* installHugo, and the managed binary it leaves.
ensureHugo(forceInstall, choice, netOk, outcome) ==
    LET r == [result |-> "none", prompted |-> FALSE, installed |-> FALSE,
              managed |-> bins.managed]
    IN  IF cfg.hugoPath
        THEN IF checkHugo(bins.user) THEN [r EXCEPT !.result = "user"]
             ELSE [r EXCEPT !.result = "error.hugoInvalid"]
        ELSE IF ~forceInstall /\ checkHugo(bins.path)
        THEN [r EXCEPT !.result = "hugo"]
        ELSE IF ~forceInstall /\ checkHugo(bins.managed)
        THEN [r EXCEPT !.result = "managed"]
        ELSE IF RefusesInstall(cfg.autoDownload, forceInstall)
        THEN [r EXCEPT !.result = "error.hugoNotFound"]
        ELSE IF choice # "install"
        THEN [r EXCEPT !.result = "error.installCanceled", !.prompted = TRUE]
        ELSE LET i == installHugo(bins.managed, netOk, outcome)
             IN [result |-> IF i.error # "none" THEN i.error
                            ELSE IF checkHugo(i.managed) THEN "managed"
                            ELSE "error.installFailed",
                 prompted |-> TRUE, installed |-> TRUE, managed |-> i.managed]

\* A command calls ensureHugo: hugoPreview.installHugo with forceInstall,
\* openPreview and startHugoServer without.
EnsureHugoCall(forceInstall, choice, netOk, outcome) ==
    /\ LET r == ensureHugo(forceInstall, choice, netOk, outcome)
           b == [bins EXCEPT !.managed = r.managed]
       IN /\ bins' = b
          /\ lastEnsure' = [called |-> TRUE, force |-> forceInstall,
                            result |-> r.result, prompted |-> r.prompted,
                            installed |-> r.installed,
                            version |-> BinaryAt(b, r.result),
                            afterPin |-> pcStartup \in {"update", "done"},
                            pathRan |-> checkHugo(bins.path),
                            managedRan |-> checkHugo(bins.managed)]
    /\ UNCHANGED <<cfg, latest, pcStartup, updateLog>>

\* ensurePinnedHugoOnStartup.
EnsurePinned(outcome) ==
    /\ pcStartup = "pin"
    /\ LET where == resolveInstalledHugo
           i == IF cfg.hugoVersion = 0 THEN [error |-> "none", managed |-> bins.managed]
                ELSE IF where = "null" \/ BinaryAt(bins, where) # cfg.hugoVersion
                THEN installHugoInternal(bins.managed, cfg.hugoVersion, outcome)
                ELSE [error |-> "none", managed |-> bins.managed]
       IN /\ bins' = [bins EXCEPT !.managed = i.managed]
          /\ pcStartup' = IF i.error = "none" THEN "update" ELSE "failed"
    /\ UNCHANGED <<cfg, latest, lastEnsure, updateLog>>

\* isNewer(remote, local).
isNewer(remote, local) == remote > local

\* SkipsUpdateCheck without the test of the pinned version.
SkipsUpdateCheckNever(pinnedVersion) == FALSE

\* The first test of checkHugoUpdateOnStartup: a pinned version (a non-empty
\* hugoPreview.hugoVersion, 0 stands for the empty string) ends the check.
SkipsUpdateCheck(pinnedVersion) == pinnedVersion # 0

\* checkHugoUpdateOnStartup.
CheckUpdate(netOk, choice, outcome) ==
    /\ pcStartup = "update"
    /\ LET where == resolveInstalledHugo
           skip == [log |-> NoUpdate, error |-> "none", managed |-> bins.managed]
           r == IF SkipsUpdateCheck(cfg.hugoVersion) \/ where = "null" THEN skip
                ELSE IF ~netOk
                THEN [skip EXCEPT !.log.queried = TRUE, !.error = "network"]
                ELSE IF ~isNewer(latest, BinaryAt(bins, where))
                THEN [skip EXCEPT !.log.queried = TRUE]
                ELSE IF choice # "update"
                THEN [skip EXCEPT !.log.queried = TRUE, !.log.prompted = TRUE]
                ELSE LET i == installHugoInternal(bins.managed, latest, outcome)
                     IN [log |-> [queried |-> TRUE, prompted |-> TRUE, installed |-> TRUE],
                         error |-> i.error, managed |-> i.managed]
       IN /\ bins' = [bins EXCEPT !.managed = r.managed]
          /\ updateLog' = r.log
          /\ pcStartup' = IF r.error = "none" THEN "done" ELSE "failed"
    /\ UNCHANGED <<cfg, latest, lastEnsure>>

(***************************************************************************)
(* resolveHtmlPathByHugoList                                               *)
(***************************************************************************)
\* A string is a sequence of tokens: the characters the code looks at
\* (",", "\n", "\"", "\\", "/", " ") and words that stand for runs of other
\* characters.  "http://h" is the scheme and host of an absolute URL.
Str(w) == <<w>>

Whitespace == {" ", "\n"}

\* String.prototype.trim.
RECURSIVE TrimLeft(_)
TrimLeft(s) ==
    IF s # <<>> /\ Head(s) \in Whitespace THEN TrimLeft(Tail(s)) ELSE s

RECURSIVE TrimRight(_)
TrimRight(s) ==
    IF s # <<>> /\ s[Len(s)] \in Whitespace
    THEN TrimRight(SubSeq(s, 1, Len(s) - 1)) ELSE s

Trim(s) == TrimRight(TrimLeft(s))

\* String.prototype.split(sep) for a one-character separator: "" gives [""].
RECURSIVE Split(_, _)
Split(s, sep) ==
    IF \A i \in 1..Len(s) : s[i] # sep THEN <<s>>
    ELSE LET k == CHOOSE i \in 1..Len(s) :
                    s[i] = sep /\ \A j \in 1..(i - 1) : s[j] # sep
         IN <<SubSeq(s, 1, k - 1)>> \o Split(SubSeq(s, k + 1, Len(s)), sep)

\* Array.prototype.indexOf, counted from 1, 0 when absent (-1 in the code).
IndexOf(seq, x) ==
    IF \E i \in 1..Len(seq) : seq[i] = x
    THEN CHOOSE i \in 1..Len(seq) : seq[i] = x /\ \A j \in 1..(i - 1) : seq[j] # x
    ELSE 0

\* normalize: p.replace(/\\/g, "/").
normalize(p) == [i \in 1..Len(p) |-> IF p[i] = "\\" THEN "/" ELSE p[i]]

\* new URL(s) succeeds: s is an absolute URL.
IsUrl(s) == s # <<>> /\ Head(s) = "http://h"

\* new URL(s).pathname: what follows the host, "/" when nothing does.
RECURSIVE FromSlash(_)
FromSlash(s) ==
    IF s = <<>> THEN <<"/">>
    ELSE IF Head(s) = "/" THEN s ELSE FromSlash(Tail(s))

Pathname(s) == FromSlash(Tail(s))

\* replace(/^\/+/, "").
RECURSIVE StripLeadingSlashes(_)
StripLeadingSlashes(s) ==
    IF s # <<>> /\ Head(s) = "/" THEN StripLeadingSlashes(Tail(s)) ELSE s

\* path.normalize on POSIX for paths without "." and ".." segments: runs of
\* slashes collapse.
RECURSIVE PathNormal(_)
PathNormal(s) ==
    IF Len(s) < 2 THEN s
    ELSE IF s[1] = "/" /\ s[2] = "/" THEN PathNormal(Tail(s))
    ELSE <<Head(s)>> \o PathNormal(Tail(s))

\* path.join(a, b) on POSIX: empty arguments are skipped.
PathJoin(a, b) ==
    IF a = <<>> THEN PathNormal(b)
    ELSE IF b = <<>> THEN PathNormal(a)
    ELSE PathNormal(a \o <<"/">> \o b)

\* opts.outDir: <globalStorage>/run/public.
outDir == <<"/", "public">>

\* What a call gives: the path it returns or the error it throws.
Returned(path) == [ok |-> TRUE, path |-> path, error |-> "none"]
Thrown(key)    == [ok |-> FALSE, path |-> <<>>, error |-> key]
Pending        == Thrown("pending")

\* The loop of resolveHtmlPathByHugoList over lines[i..], with the header's
\* column indexes and the target path.  cols[k] beyond the row is undefined:
\* normalize(undefined) throws a TypeError, an undefined permalink is falsy.
RECURSIVE ScanLines(_, _, _, _, _)
ScanLines(lines, i, idxPath, idxPermalink, targetPath) ==
    IF i > Len(lines) THEN Thrown("error.htmlNotGenerated")
    ELSE LET cols == Split(lines[i], ",")
         IN IF idxPath > Len(cols) THEN Thrown("TypeError")
            ELSE IF normalize(cols[idxPath]) # targetPath
            THEN ScanLines(lines, i + 1, idxPath, idxPermalink, targetPath)
            ELSE IF idxPermalink > Len(cols) \/ cols[idxPermalink] = <<>>
            THEN Thrown("error.hugoPermalinkMissing")
            ELSE IF ~IsUrl(cols[idxPermalink]) THEN Thrown("TypeError")
            ELSE Returned(PathJoin(outDir,
                    PathJoin(StripLeadingSlashes(Pathname(cols[idxPermalink])),
                             Str("index.html"))))

\* resolveHtmlPathByHugoList on the standard output of `hugo list all`.
resolveHtmlPathByHugoList(stdout, relPath) ==
    LET lines == Split(Trim(stdout), "\n")
    IN IF Len(lines) < 2 THEN Thrown("error.hugoListEmpty")
       ELSE LET headers == Split(lines[1], ",")
                idxPath == IndexOf(headers, Str("path"))
                idxPermalink == IndexOf(headers, Str("permalink"))
            IN IF idxPath = 0 \/ idxPermalink = 0
               THEN Thrown("error.hugoListInvalidFormat")
               ELSE ScanLines(lines, 2, idxPath, idxPermalink,
                              normalize(<<"content", "/">> \o relPath))

\* `hugo list all` writes its records with a CSV writer: a field that holds
\* a comma, a quote or a line break, or starts with a space, is written in
\* double quotes, with its quotes doubled.
NeedsQuotes(f) ==
    f # <<>> /\ (Head(f) = " " \/ \E i \in 1..Len(f) : f[i] \in {",", "\"", "\n"})

RECURSIVE DoubleQuotes(_)
DoubleQuotes(f) ==
    IF f = <<>> THEN <<>>
    ELSE (IF Head(f) = "\"" THEN <<"\"", "\"">> ELSE <<Head(f)>>) \o DoubleQuotes(Tail(f))

CsvField(f) == IF NeedsQuotes(f) THEN <<"\"">> \o DoubleQuotes(f) \o <<"\"">> ELSE f

RECURSIVE CsvLine(_)
CsvLine(rec) ==
    IF rec = <<>> THEN <<>>
    ELSE IF Len(rec) = 1 THEN CsvField(rec[1])
    ELSE CsvField(rec[1]) \o <<",">> \o CsvLine(Tail(rec))

RECURSIVE CsvOutput(_)
CsvOutput(recs) ==
    IF recs = <<>> THEN <<>>
    ELSE CsvLine(Head(recs)) \o <<"\n">> \o CsvOutput(Tail(recs))

\* The inputs: headers, and the values a row has in each kind of column.
Headers == { <<Str("path"), Str("title"), Str("permalink")>>,
             <<Str("path"), Str("permalink"), Str("title")>>,
             <<Str("path"), Str("title")>>,
             <<Str("title"), Str("permalink")>> }

PathValues == { <<"content", "/", "a.md">>, <<"content", "\\", "a.md">>,
                <<"content", "/", "b.md">> }

TitleValues == { <<>>, <<"x">>, <<"x", ",", " ", "y">> }

LinkValues == { <<>>, <<"http://h", "/", "a", "/">>, <<"http://h", "/", "b", "/">>,
                <<"http://h">>, <<"/", "a", "/">> }

ColumnValues(name) ==
    IF name = Str("path") THEN PathValues
    ELSE IF name = Str("title") THEN TitleValues
    ELSE LinkValues

RowsOf(header) ==
    {r \in [1..Len(header) -> PathValues \cup TitleValues \cup LinkValues] :
        \A i \in 1..Len(header) : r[i] \in ColumnValues(header[i])}

RelPaths == { <<"a.md">>, <<"b.md">> }

ListIdle ==
    /\ listRecords = <<>>
    /\ contentRelPath = <<"a.md">>
    /\ listResult = Pending

ListInit ==
    /\ \E header \in Headers : \E n \in 0..MaxRows :
          \E rows \in [1..n -> RowsOf(header)] :
              listRecords \in {<<>>, <<header>> \o rows}
    /\ contentRelPath \in RelPaths
    /\ listResult = Pending

\* openPreview calls resolveHtmlPathByHugoList.
ResolveHtmlPath ==
    /\ listResult = Pending
    /\ listResult' = resolveHtmlPathByHugoList(CsvOutput(listRecords), contentRelPath)
    /\ UNCHANGED <<listRecords, contentRelPath>>

ServerIdle ==
    /\ hugoServerProcess = 0
    /\ isHugoServerRunning = FALSE
    /\ child = [p \in Pids |-> NoChild]
    /\ nextPid = 1
    /\ task = [t \in Tasks |-> IdleTask]
    /\ shown = {}

(***************************************************************************)
(* Specifications                                                          *)
(***************************************************************************)
PreviewOnly == UNCHANGED <<serverVars, hugoVars, listVars>>

ServerOnly == UNCHANGED <<previewVars, hugoVars, listVars>>

HugoOnly == UNCHANGED <<serverVars, previewVars, listVars>>

ListOnly == UNCHANGED <<serverVars, previewVars, hugoVars>>

Init == ServerInit /\ PreviewIdle /\ HugoIdle /\ ListIdle

Next ==
    \/ \E t \in Tasks : StartCommand(t) /\ ServerOnly
    \/ \E t \in Tasks : \E o \in StartOutcomes : StartResume(t, o) /\ ServerOnly
    \/ \E t \in Tasks : StopCommand(t) /\ ServerOnly
    \/ \E t \in Tasks : RestartCommand(t) /\ ServerOnly
    \/ \E p \in Pids : ChildLogAvailable(p) /\ ServerOnly
    \/ \E p \in Pids : ChildLogError(p) /\ ServerOnly
    \/ \E p \in Pids : ChildError(p) /\ ServerOnly
    \/ \E p \in Pids : \E code \in {0, 1} : ChildExit(p, code) /\ ServerOnly

Spec == Init /\ [][Next]_vars

PreviewSpecInit ==
    PreviewInit /\ ServerIdle /\ HugoIdle /\ ListIdle /\ hasWorkspace \in BOOLEAN

PreviewSpecNext ==
    \/ \E c \in Calls : OpenCommand(c) /\ PreviewOnly
    \/ \E d \in Docs \cup {"none"} : SwitchEditor(d) /\ PreviewOnly
    \/ \E c \in Calls : PrepareBuild(c) /\ PreviewOnly
    \/ \E c \in Calls : BuildRead(c) /\ PreviewOnly
    \/ \E c \in Calls : BuildWrite(c) /\ PreviewOnly
    \/ \E c \in Calls : CallFails(c) /\ PreviewOnly
    \/ \E c \in Calls : Finish(c) /\ PreviewOnly
    \/ ClosePanel /\ PreviewOnly
    \/ \E d \in Docs : Save(d) /\ PreviewOnly

PreviewSpec == PreviewSpecInit /\ [][PreviewSpecNext]_vars

HugoSpecInit ==
    HugoInit /\ ServerIdle /\ PreviewIdle /\ ListIdle /\ hasWorkspace = TRUE

HugoSpecNext ==
    \/ \E o \in InstallOutcomes : EnsurePinned(o) /\ HugoOnly
    \/ \E n \in BOOLEAN : \E ch \in {"update", "later"} : \E o \in InstallOutcomes :
          CheckUpdate(n, ch, o) /\ HugoOnly
    \/ \E f \in BOOLEAN : \E ch \in {"install", "cancel"} : \E n \in BOOLEAN :
          \E o \in InstallOutcomes : EnsureHugoCall(f, ch, n, o) /\ HugoOnly

HugoSpec == HugoSpecInit /\ [][HugoSpecNext]_vars

ListSpecInit ==
    ListInit /\ ServerIdle /\ PreviewIdle /\ HugoIdle /\ hasWorkspace = TRUE

ListSpecNext == ResolveHtmlPath /\ ListOnly

ListSpec == ListSpecInit /\ [][ListSpecNext]_vars

(***************************************************************************)
(* Claims about the server supervision                                     *)
(***************************************************************************)
AliveChildren == {p \in Pids : Alive(p)}

\* C1: at most one Hugo server child process spawned by startHugoServer is
\* alive at any time, under any interleaving of start, stop, restart and exits.
C1_AtMostOneAlive == Cardinality(AliveChildren) <= 1

\* C2: a live child on which stopHugoServer has not been called is the one
\* hugoServerProcess refers to: no live child is left unreferenced.
C2_LiveChildReferenced ==
    \A p \in Pids : (Alive(p) /\ ~child[p].killed) => hugoServerProcess = p

ErrorNotes == {"error.hugoServerFailed", "error.hugoServerExitedUnexpectedly",
               "error.hugoServerLaunchFailed"}

\* C12: the exit of a child that stopHugoServer killed (it ends by the
\* signal, exit code null) shows no error notification, only the 'server
\* stopped' message, whether or not the server had announced itself.
C12_StopShowsNoError ==
    [][\A p \in Pids :
          (Alive(p) /\ child[p].killed /\ child'[p].state = "exited" /\ child'[p].code = 0)
              => shown' \cap ErrorNotes = {}]_vars

\* C13: restartHugoServer spawns the new server only when every child that
\* was alive when the restart was requested has exited.
C13_RestartSpawnsAfterExit ==
    [][\A t \in Tasks :
          (/\ task[t].kind = "restart" /\ task[t].pc = "ensureHugo"
           /\ task'[t].pc = "idle"
           /\ nextPid' > nextPid /\ child'[nextPid].state = "alive")
              => \A p \in task[t].old : ~Alive(p)]_vars

(***************************************************************************)
(* Claims about the preview panel                                          *)
(***************************************************************************)
\* C3: for every build run by openPreview the temporary content directory
\* holds only the copy of the document being previewed: what the build reads
\* is that one file.
C3_OnlyPreviewedDocInContent ==
    \A c \in Calls :
        call[c].pc = "render" => {d \in Docs : call[c].snap[d] # -1} = {call[c].doc}

\* C8: a panel is created only by an openPreview that the hugoPreview.open
\* command started; a save-triggered refresh never creates one.
C8_PanelOnlyByCommand ==
    [][(previewPanel = 0 /\ previewPanel' # 0) =>
          \E c \in Calls : /\ call[c].pc = "list"
                           /\ call'[c].pc = "idle"
                           /\ call[c].origin = "command"]_vars

\* C9: once every openPreview has completed, if the panel shows document d and
\* a completed openPreview copied the most recently saved text of d, the
\* webview shows the HTML built from that text.
C9_WebviewShowsLatest ==
    (IdleCalls = Calls /\ previewPanel # 0 /\ webviewHtml.doc \in Docs) =>
        (completed[webviewHtml.doc] = text[webviewHtml.doc]
            => webviewHtml.ver = text[webviewHtml.doc])

\* C10: the number of save listeners registered for a document does not grow
\* with the refreshes performed: one save triggers at most one rebuild.
C10_OneListenerPerDoc == \A d \in Docs : Triggered(d) <= 1

\* C11: a save starts a refresh only when the saved document is the one the
\* panel shows: a step that saves d and starts an openPreview finds d in the
\* webview.
C11_RefreshOnlyForShownDoc ==
    [][\A d \in Docs :
          (text'[d] # text[d] /\ \E c \in Calls : call[c].pc = "idle" /\ call'[c].pc # "idle")
              => webviewHtml.doc = d]_vars

(***************************************************************************)
(* Claims about the hugo binary                                            *)
(***************************************************************************)
\* C4: with hugoVersion pinned to P and ensurePinnedHugoOnStartup completed
\* without error, the binary ensureHugo(context, false) returns reports P.
C4_PinnedVersionUsed ==
    (/\ cfg.hugoVersion # 0
     /\ lastEnsure.called /\ lastEnsure.afterPin /\ ~lastEnsure.force
     /\ lastEnsure.result \in HugoPaths)
        => lastEnsure.version = cfg.hugoVersion

\* C6: ensureHugo with forceInstall = true returns a path only after it
\* attempted an installation (the prompt followed by installHugo), whatever
\* hugoPath and autoDownload are.
C6_ForceInstallAlwaysInstalls ==
    (lastEnsure.called /\ lastEnsure.force /\ lastEnsure.result \in HugoPaths)
        => (lastEnsure.prompted /\ lastEnsure.installed)

\* The case of C7: ensureHugo was called with forceInstall = false while
\* autoDownload is false, hugoPath is empty and neither the PATH hugo nor
\* the managed binary ran.
C7_Case ==
    /\ lastEnsure.called /\ ~lastEnsure.force
    /\ ~cfg.autoDownload /\ ~cfg.hugoPath
    /\ ~lastEnsure.pathRan /\ ~lastEnsure.managedRan

\* C7: in that case ensureHugo fails with error.hugoNotFound, shows no install
\* prompt and starts no download.
C7_NotFoundWithoutPrompt ==
    C7_Case => /\ lastEnsure.result = "error.hugoNotFound"
               /\ ~lastEnsure.prompted
               /\ ~lastEnsure.installed

C7_Witness == C7_Case /\ lastEnsure.result = "error.hugoNotFound"

\* The errors installHugoInternal ends with when one of its steps fails.
InstallErrors == {"downloadFails", "extractFails", "error.hugoBinaryNotFound",
                  "error.hugoNotExecutable"}

\* C14: when installHugoInternal fails at any step (download, extraction,
\* binary not found, final executable check) the managed binary is the one
\* that was there before the call (stated for a working managed binary).
C14_FailedInstallKeepsBinary ==
    [][(/\ checkHugo(bins.managed)
        /\ \/ pcStartup # "failed" /\ pcStartup' = "failed"
           \/ /\ lastEnsure' # lastEnsure /\ lastEnsure'.installed
              /\ lastEnsure'.result \in InstallErrors)
          => bins'.managed = bins.managed]_vars

\* C15: with a pinned version (hugoPreview.hugoVersion non-empty)
\* checkHugoUpdateOnStartup returns normally without querying the latest
\* release, without prompting and without installing: the managed binary
\* is untouched.
C15_PinnedSkipsUpdateCheck ==
    [][(cfg.hugoVersion # 0 /\ pcStartup = "update" /\ pcStartup' # "update")
          => /\ updateLog' = NoUpdate
             /\ bins' = bins
             /\ pcStartup' = "done"]_vars

\* The check has returned for a pinned version although a binary is installed
\* and a newer release exists.
C15_Witness ==
    /\ cfg.hugoVersion # 0
    /\ pcStartup = "done"
    /\ resolveInstalledHugo # "null"
    /\ isNewer(latest, BinaryAt(bins, resolveInstalledHugo))

(***************************************************************************)
(* Claims about resolveHtmlPathByHugoList                                  *)
(***************************************************************************)
\* The data rows of the list whose path column is content/<contentRelPath>,
\* backslashes normalised, when the header has a path and a permalink column.
ListHeader == listRecords[1]

MatchingRows ==
    IF listRecords = <<>> \/ IndexOf(ListHeader, Str("path")) = 0
                          \/ IndexOf(ListHeader, Str("permalink")) = 0
    THEN {}
    ELSE {i \in 2..Len(listRecords) :
            normalize(listRecords[i][IndexOf(ListHeader, Str("path"))])
                = <<"content", "/">> \o normalize(contentRelPath)}

FirstMatch == CHOOSE i \in MatchingRows : \A j \in MatchingRows : i <= j

PermalinkOfFirstMatch == listRecords[FirstMatch][IndexOf(ListHeader, Str("permalink"))]

\* C5: for the first data row whose path column equals content/<contentRelPath>
\* (backslashes normalised), resolveHtmlPathByHugoList returns
\* outDir/<URL path of the row's permalink, leading slashes removed>/index.html.
C5_ReturnsPathOfPermalink ==
    (listResult # Pending /\ MatchingRows # {} /\ IsUrl(PermalinkOfFirstMatch))
        => listResult = Returned(PathNormal(
                outDir \o <<"/">> \o StripLeadingSlashes(Pathname(PermalinkOfFirstMatch))
                       \o <<"/", "index.html">>))

\* The header Hugo wrote has a path and a permalink column.
HeaderHasColumns ==
    /\ IndexOf(ListHeader, Str("path")) # 0
    /\ IndexOf(ListHeader, Str("permalink")) # 0

\* C16: resolveHtmlPathByHugoList fails with error.hugoListEmpty when the
\* list has fewer than two lines, with error.hugoListInvalidFormat when the
\* header has no path or no permalink column, with error.hugoPermalinkMissing
\* when the matching row has an empty permalink, and with
\* error.htmlNotGenerated when no row matches the document.
C16_FailsWithNamedError ==
    listResult # Pending =>
        /\ Len(listRecords) < 2 => listResult = Thrown("error.hugoListEmpty")
        /\ (Len(listRecords) >= 2 /\ ~HeaderHasColumns)
              => listResult = Thrown("error.hugoListInvalidFormat")
        /\ (Len(listRecords) >= 2 /\ HeaderHasColumns /\ MatchingRows = {})
              => listResult = Thrown("error.htmlNotGenerated")
        /\ (Len(listRecords) >= 2 /\ MatchingRows # {} /\ PermalinkOfFirstMatch = <<>>)
              => listResult = Thrown("error.hugoPermalinkMissing")

====
